---- MODULE Spec2Model ----
(***************************************************************************)
(* Batch submission grading of the EduAdapt MCP server.                    *)
(*                                                                         *)
(* Two batch entry points are modelled, both driving                       *)
(* GradingService.gradeStudentSubmission once or twice per submission:     *)
(*   "tool"    the google-classroom-grade-all-submissions tool, which maps *)
(*             every gradable submission to an async callback, awaits      *)
(*             Promise.all and computes the statistics of the report;      *)
(*   "service" GradingService.gradeMultipleSubmissions, a for-loop that    *)
(*             awaits one submission after the other.                      *)
(* One action is one run of a callback between two awaits on an external   *)
(* collaborator (Drive, the worksheet store, OCR, the language model).     *)
(* Texts are sequences of fragments: a template literal `a: ${m}` is       *)
(* <<"a: ">> \o m.                                                         *)
(***************************************************************************)
EXTENDS Integers, Sequences, FiniteSets, TLC

VARIABLES
    worksheets,         \* StorageData.worksheets, keyed by worksheetPdfUrl
    assignmentMapping,  \* StorageData.assignmentMapping: assignmentId -> worksheetPdfUrl
    mode,               \* which batch entry point runs: "tool" or "service"
    submissions,        \* the input list: gradableSubmissions / submissions (userIds)
    env,                \* per submission: the answers its external calls can give
    pc,                 \* per submission: the await its callback is suspended at
    attempt,            \* per submission: 1 in the Drive try block, 2 in the fallback
    studentWorkContent, \* per submission: the text handed to the grading prompt
    downloadError,      \* per submission: the error caught by catch (downloadError)
    gradingPromises,    \* tool: per submission <<>> while pending, <<value>> once settled
    cursor,             \* service: index of the submission the for-loop is at
    results,            \* the array of outcomes (Promise.all value / pushed results)
    report,             \* tool: the statistics computed from results
    phase,              \* "running", then "done" once the batch has returned
    hist,               \* per submission: what its external calls answered so far
    isInitialized,      \* WorksheetStorageManager.isInitialized
    storageFile,        \* the content of worksheet-assignments.json on disk
    calls,              \* per slot: a call of the storage manager and the await it is at
    client,             \* what the callers of the storage manager do: how many calls
                        \* at a time, and which ones
    now,                \* the clock read by new Date()
    last,               \* the call whose body ran last: arguments, result, data before
    linkedTo            \* per assignment: the worksheet of its last successful link,
                        \* unless that worksheet was deleted since

batchVars == <<mode, submissions, env, pc, attempt, studentWorkContent, downloadError,
               gradingPromises, cursor, results, report, phase, hist>>

storeVars == <<worksheets, assignmentMapping, isInitialized, storageFile, calls,
               client, now, last, linkedTo>>

vars == <<batchVars, storeVars>>

(***************************************************************************)
(* Bounds                                                                  *)
(***************************************************************************)
NumTasks == 2

\* the 5-task scenario of the report statistics
ScenarioTasks == 5

\* the latest time the clock shows
MaxClock == 1

\* how many calls of the storage manager can be in flight at a time
MaxInFlight == 2

(***************************************************************************)
(* The worksheet store, as far as grading reads it                         *)
(***************************************************************************)
AssignmentId == "A1"
WorksheetUrl == "W1"

\* JavaScript undefined in a numeric field
Undefined == -1

\* !x for a number | undefined
Falsy(x) == x = Undefined \/ x = 0

RubricTotal == 100

GradingBreakdown == <<[section |-> "Fractions", points |-> 50],
                      [section |-> "Word Problems", points |-> 50]>>

WorksheetRecord(html, total, aid) ==
    [answerKeyHtml |-> html, totalPoints |-> total,
     gradingBreakdown |-> IF total = Undefined THEN <<>> ELSE GradingBreakdown,
     assignmentId |-> aid, createdAt |-> 0]

\* the stores a batch can find: nothing, an unlinked worksheet, a linked
\* scoreable one, and linked ones without total points or without answer key
StoreStates ==
    { [worksheets |-> <<>>, assignmentMapping |-> <<>>],
      [worksheets |-> (WorksheetUrl :> WorksheetRecord(<<"answer key">>, RubricTotal, <<>>)),
       assignmentMapping |-> <<>>],
      [worksheets |-> (WorksheetUrl :> WorksheetRecord(<<"answer key">>, RubricTotal, <<AssignmentId>>)),
       assignmentMapping |-> (AssignmentId :> WorksheetUrl)],
      [worksheets |-> (WorksheetUrl :> WorksheetRecord(<<"answer key">>, 0, <<AssignmentId>>)),
       assignmentMapping |-> (AssignmentId :> WorksheetUrl)],
      [worksheets |-> (WorksheetUrl :> WorksheetRecord(<<"answer key">>, Undefined, <<AssignmentId>>)),
       assignmentMapping |-> (AssignmentId :> WorksheetUrl)],
      [worksheets |-> (WorksheetUrl :> WorksheetRecord(<<>>, RubricTotal, <<AssignmentId>>)),
       assignmentMapping |-> (AssignmentId :> WorksheetUrl)] }

\* null is <<>>, a value v is <<v>>
getWorksheetByAssignment(aid) ==
    IF aid \notin DOMAIN assignmentMapping THEN <<>>
    ELSE IF assignmentMapping[aid] \notin DOMAIN worksheets THEN <<>>
    ELSE <<worksheets[assignmentMapping[aid]]>>

\* a default rubric instead of null
getGradingInfoDefaulting(aid) ==
    IF aid \notin DOMAIN assignmentMapping
    THEN <<[totalPoints |-> 0, gradingBreakdown |-> <<>>]>>
    ELSE IF assignmentMapping[aid] \notin DOMAIN worksheets THEN <<>>
    ELSE <<[totalPoints |-> worksheets[assignmentMapping[aid]].totalPoints,
            gradingBreakdown |-> worksheets[assignmentMapping[aid]].gradingBreakdown]>>

getGradingInfo(aid) ==
    IF aid \notin DOMAIN assignmentMapping THEN <<>>
    ELSE IF assignmentMapping[aid] \notin DOMAIN worksheets THEN <<>>
    ELSE <<[totalPoints |-> worksheets[assignmentMapping[aid]].totalPoints,
            gradingBreakdown |-> worksheets[assignmentMapping[aid]].gradingBreakdown]>>

\* the answer key of the worksheet linked to the assignment, or null (<<>>)
getAnswerKeyHtml(aid) ==
    IF getWorksheetByAssignment(aid) = <<>> THEN <<>>
    ELSE getWorksheetByAssignment(aid)[1].answerKeyHtml

(***************************************************************************)
(* WorksheetStorageManager: the calls that write the store, as functions   *)
(* of this.data                                                            *)
(***************************************************************************)
Worksheets == {"W1", "W2"}
Assignments == {"A1", "A2"}

\* the constructor: { worksheets: {}, assignmentMapping: {} }
EmptyData == [worksheets |-> <<>>, assignmentMapping |-> <<>>]

\* this.data
Data == [worksheets |-> worksheets, assignmentMapping |-> assignmentMapping]

\* obj[key] = value
Assign(obj, key, value) ==
    [k \in DOMAIN obj \cup {key} |-> IF k = key THEN value ELSE obj[k]]

\* delete obj[key]
Delete(obj, key) ==
    IF DOMAIN obj \ {key} = {} THEN <<>>
    ELSE [k \in DOMAIN obj \ {key} |-> obj[k]]

\* what a call leaves: this.data, the value returned, whether save() is awaited
Left(d, result, save) == [data |-> d, result |-> result, save |-> save]

\* lines 79-91: the record is built anew from the arguments; createdAt is now
addWorksheet(d, w, total, t) ==
    Left([d EXCEPT !.worksheets =
             Assign(@, w, [WorksheetRecord(<<"answer key">>, total, <<>>)
                              EXCEPT !.createdAt = t])],
         <<>>, TRUE)

\* the index entry written whether or not the worksheet exists
linkWorksheetToAssignmentUnchecked(d, w, a) ==
    Left([d EXCEPT !.assignmentMapping = Assign(@, a, w)], <<TRUE>>, TRUE)

\* an existing index entry or assignment link kept
linkWorksheetToAssignmentKeepFirst(d, w, a) ==
    IF w \notin DOMAIN d.worksheets THEN Left(d, <<FALSE>>, FALSE)
    ELSE IF a \in DOMAIN d.assignmentMapping \/ d.worksheets[w].assignmentId # <<>>
    THEN Left(d, <<TRUE>>, TRUE)
    ELSE Left([worksheets |-> [d.worksheets EXCEPT ![w].assignmentId = <<a>>],
               assignmentMapping |-> Assign(d.assignmentMapping, a, w)],
              <<TRUE>>, TRUE)

\* lines 102-116
linkWorksheetToAssignment(d, w, a) ==
    IF w \notin DOMAIN d.worksheets THEN Left(d, <<FALSE>>, FALSE)
    ELSE Left([worksheets |-> [d.worksheets EXCEPT ![w].assignmentId = <<a>>],
               assignmentMapping |-> Assign(d.assignmentMapping, a, w)],
              <<TRUE>>, TRUE)

\* lines 170-180: the index entry removed is the one the record names
deleteWorksheet(d, w) ==
    IF w \notin DOMAIN d.worksheets THEN Left(d, <<FALSE>>, FALSE)
    ELSE Left([worksheets |-> Delete(d.worksheets, w),
               assignmentMapping |->
                   IF d.worksheets[w].assignmentId # <<>>
                   THEN Delete(d.assignmentMapping, d.worksheets[w].assignmentId[1])
                   ELSE d.assignmentMapping],
              <<TRUE>>, TRUE)

\* a measure of the length of JSON.stringify(d): every record, every link a
\* record names, every total with its breakdown and every index entry add to it
Length(d) ==
    10 * Cardinality(DOMAIN d.worksheets)
    + Cardinality({w \in DOMAIN d.worksheets : d.worksheets[w].assignmentId # <<>>})
    + 2 * Cardinality({w \in DOMAIN d.worksheets : d.worksheets[w].totalPoints # Undefined})
    + Cardinality(DOMAIN d.assignmentMapping)

\* JSON.stringify(this.data, null, 2): a field that is undefined is left out,
\* and reads as undefined again after JSON.parse
JSONstringify(d) == [kind |-> "json", data |-> d, length |-> Length(d)]

JSONparse(text) == text.data

\* the file does not exist
FileAbsent == [kind |-> "absent", data |-> EmptyData, length |-> 0]

\* the file holds length bytes that are no complete snapshot: JSON.parse
\* throws on them
FileTorn(length) == [kind |-> "torn", data |-> EmptyData, length |-> length]

\* write(fd, text) at the start of a file: a longer content keeps its tail
Overwritten(file, text) ==
    IF text.length >= file.length THEN text ELSE FileTorn(file.length)

\* a call and its arguments
Call(op, w, a, total) == [op |-> op, w |-> w, a |-> a, total |-> total]

NoCall == Call("none", "", "", Undefined)

StoreCalls ==
    {Call("addWorksheet", w, "", total) : w \in Worksheets, total \in {RubricTotal, Undefined}}
    \cup {Call("linkWorksheetToAssignment", w, a, Undefined) : w \in Worksheets, a \in Assignments}
    \cup {Call("deleteWorksheet", w, "", Undefined) : w \in Worksheets}
    \cup {Call("getGradingInfo", "", a, Undefined) : a \in Assignments}
    \cup {Call("getWorksheetByAssignment", "", a, Undefined) : a \in Assignments}

Slots == 1..MaxInFlight

IdleSlot == [pc |-> "idle", call |-> NoCall, text |-> FileAbsent]

NoLast == [call |-> NoCall, result |-> <<>>, before |-> EmptyData]

\* the links a store holds when it is loaded
LinksOf(d) ==
    [a \in Assignments |->
        IF a \in DOMAIN d.assignmentMapping /\ d.assignmentMapping[a] \in DOMAIN d.worksheets
        THEN <<d.assignmentMapping[a]>> ELSE <<>>]

(***************************************************************************)
(* What the external collaborators can answer                              *)
(***************************************************************************)
Ok == [ok |-> TRUE]
Err(at, message) == [ok |-> FALSE, at |-> at, message |-> message]

\* fs.mkdir and the Drive download / save / re-read of the tool
DriveAnswers == {Ok, Err("mkdir", <<"EACCES">>), Err("drive", <<"File not found">>)}

\* classroomService.client.downloadFile of the fallback (its error is dropped)
AltAnswers == {Ok, Err("alt", <<"Error downloading file">>)}

\* mistralClient.processOCR*: text, empty content, or a thrown error
OcrText == [kind |-> "text", message |-> <<>>]
OcrEmpty == [kind |-> "empty", message |-> <<>>]
OcrError == [kind |-> "error", message |-> <<"OCR processing failed: ", "timeout">>]
OcrAnswers == {OcrText, OcrEmpty, OcrError}

SectionScore(earned, possible) == [pointsEarned |-> earned, pointsPossible |-> possible]

G(score, total, pct, sections, scaffold, accelerate) ==
    [overallScore |-> score, totalPossiblePoints |-> total, percentageScore |-> pct,
     sectionScores |-> sections, overallFeedback |-> <<"feedback of the model">>,
     needsScaffolding |-> scaffold, readyForAcceleration |-> accelerate,
     scaffoldingAreas |-> IF scaffold THEN <<"Fractions">> ELSE <<>>,
     accelerationAreas |-> IF accelerate THEN <<"Word Problems">> ELSE <<>>]

\* objects that pass GradingResultSchema: the schema constrains the types only
PerfectResult == G(100, 100, 100, <<SectionScore(50, 50), SectionScore(50, 50)>>, FALSE, TRUE)
HalfResult == G(50, 100, 50, <<SectionScore(25, 50), SectionScore(25, 50)>>, TRUE, FALSE)
OverResult == G(130, 100, 130, <<SectionScore(65, 50), SectionScore(65, 50)>>, FALSE, TRUE)
NegativeResult == G(-10, 100, 0, <<SectionScore(-10, 50), SectionScore(0, 50)>>, TRUE, FALSE)
SkewedResult == G(80, 100, 75, <<SectionScore(40, 50), SectionScore(30, 50)>>, TRUE, TRUE)

GradingResultSchema ==
    {PerfectResult, HalfResult, OverResult, NegativeResult, SkewedResult}

ProviderErrors == {<<"rate limit">>}

\* LangChainMistralClient.generateWithStructuredOutput: the parsed object, or
\* the provider's error wrapped once
generateWithStructuredOutput ==
    {[ok |-> TRUE, value |-> g] : g \in GradingResultSchema}
    \cup {[ok |-> FALSE, message |-> <<"Failed to generate structured output: ">> \o m] :
            m \in ProviderErrors}

AllAnswers == [drive |-> DriveAnswers, alt |-> AltAnswers, ocr |-> OcrAnswers,
               scorer |-> generateWithStructuredOutput]

Tasks == 1..Len(submissions)

(***************************************************************************)
(* gradeStudentSubmission: the pieces between its awaits                   *)
(***************************************************************************)
EmptyFallback ==
    <<"Unable to extract text from PDF. The document may be an image-only PDF or have formatting issues.">>

\* lines 118-130: the text that reaches the prompt for an OCR answer
ExtractedContent(o) ==
    IF o.kind = "error"
    THEN <<"OCR processing failed: ">> \o o.message \o <<". Unable to extract submission content.">>
    ELSE IF o.kind = "empty" THEN EmptyFallback
    ELSE <<"text of the submission">>

\* the catch around the OCR call rethrowing instead of substituting a text
AfterOcrRethrow(o) == IF o.kind = "error" THEN "throw" ELSE "score"

\* lines 80-130: where the callback goes after the OCR await
AfterOcr(o) == "score"

\* lines 68-74: the error thrown when the rubric is missing, <<>> when it is not
RubricError(aid) ==
    IF getAnswerKeyHtml(aid) = <<>>
    THEN <<"No answer key found for assignment ", aid>>
    ELSE IF getGradingInfo(aid) = <<>> \/ Falsy(getGradingInfo(aid)[1].totalPoints)
    THEN <<"No grading information found for assignment ", aid>>
    ELSE <<>>

\* the userName a submission carries along with its userId
UserName(uid) == <<"name of student ", uid>>

\* lines 153-165: the outcome compiled from the structured result
CompiledResult(uid, g) ==
    [userId |-> uid, userName |-> UserName(uid), assignmentId |-> AssignmentId,
     overallScore |-> g.overallScore,
     totalPossiblePoints |-> g.totalPossiblePoints,
     percentageScore |-> g.percentageScore,
     sectionScores |-> g.sectionScores,
     overallFeedback |-> g.overallFeedback,
     needsScaffolding |-> g.needsScaffolding,
     readyForAcceleration |-> g.readyForAcceleration,
     scaffoldingAreas |-> g.scaffoldingAreas,
     accelerationAreas |-> g.accelerationAreas,
     error |-> FALSE]

\* line 168
GradingError(message) == <<"Failed to grade submission: ">> \o message

\* a failed record that keeps the total of the rubric
FailedEnvelopeKeepTotal(uid, feedback, flag) ==
    [userId |-> uid, userName |-> UserName(uid), assignmentId |-> AssignmentId,
     overallScore |-> 0, totalPossiblePoints |-> RubricTotal, percentageScore |-> 0,
     sectionScores |-> <<>>, overallFeedback |-> feedback,
     needsScaffolding |-> FALSE, readyForAcceleration |-> FALSE,
     scaffoldingAreas |-> <<>>, accelerationAreas |-> <<>>,
     error |-> flag]

\* the envelope both catch blocks fill in; error is absent (falsy) or true
FailedEnvelope(uid, feedback, flag) ==
    [userId |-> uid, userName |-> UserName(uid), assignmentId |-> AssignmentId,
     overallScore |-> 0, totalPossiblePoints |-> 0, percentageScore |-> 0,
     sectionScores |-> <<>>, overallFeedback |-> feedback,
     needsScaffolding |-> FALSE, readyForAcceleration |-> FALSE,
     scaffoldingAreas |-> <<>>, accelerationAreas |-> <<>>,
     error |-> flag]

\* gradeMultipleSubmissions, catch: a fixed text, no error flag
TechnicalErrorResult(uid) ==
    FailedEnvelope(uid,
        <<"Grading failed due to technical error. Please resubmit or contact your teacher.">>,
        FALSE)

\* the tool's outer catch
FailedGrading(uid, message) ==
    FailedEnvelope(uid, <<"Grading failed: ">> \o message, TRUE)

\* the tool's catch (altError)
CouldNotDownload(message) == <<"Could not download PDF: ">> \o message

(***************************************************************************)
(* The statistics of the tool's report                                     *)
(***************************************************************************)
RECURSIVE SumPercentageSkipFirst(_)
\* a reduce that starts from the first element instead of adding it
SumPercentageSkipFirst(rs) ==
    IF Len(rs) <= 1 THEN 0
    ELSE SumPercentageSkipFirst(SubSeq(rs, 1, Len(rs) - 1)) + rs[Len(rs)].percentageScore

RECURSIVE SumPercentage(_)
\* successful.reduce((sum, r) => sum + r.percentageScore, 0)
SumPercentage(rs) ==
    IF rs = <<>> THEN 0 ELSE SumPercentage(SubSeq(rs, 1, Len(rs) - 1)) + rs[Len(rs)].percentageScore

RECURSIVE Gcd(_, _)
Gcd(a, b) == IF b = 0 THEN a ELSE Gcd(b, a % b)

\* the quotient n / d as a fraction in lowest terms (n >= 0, d > 0)
Quotient(n, d) == <<n \div Gcd(n, d), d \div Gcd(n, d)>>

UserIds(rs) == [k \in 1..Len(rs) |-> rs[k].userId]

\* the error flag not consulted
successfulUnfiltered(rs) == rs

successful(rs) == SelectSeq(rs, LAMBDA r : ~r.error)

failed(rs) == SelectSeq(rs, LAMBDA r : r.error)

\* the mean taken over all results instead of the successful ones
avgScoreOverAll(rs) ==
    IF Len(successful(rs)) > 0
    THEN Quotient(SumPercentage(successful(rs)), Len(rs))
    ELSE <<0, 1>>

avgScore(rs) ==
    IF Len(successful(rs)) > 0
    THEN Quotient(SumPercentage(successful(rs)), Len(successful(rs)))
    ELSE <<0, 1>>

\* every successful student listed, whatever the flag says
needsSupportUnflagged(rs) == successful(rs)

needsSupport(rs) == SelectSeq(successful(rs), LAMBDA r : r.needsScaffolding)

readyForMore(rs) == SelectSeq(successful(rs), LAMBDA r : r.readyForAcceleration)

Statistics(rs) ==
    [successCount |-> Len(successful(rs)),
     failureCount |-> Len(failed(rs)),
     total |-> Len(rs),
     averagePercentage |-> avgScore(rs),
     scaffoldingList |-> UserIds(needsSupport(rs)),
     accelerationList |-> UserIds(readyForMore(rs))]

(***************************************************************************)
(* Initial states                                                          *)
(***************************************************************************)
NoHistory ==
    [ocr |-> "none", ocrCalls |-> 0, scorer |-> "none", scoreCalls |-> 0,
     scoreErrors |-> <<>>, lookups |-> <<>>]

InitBatch(n) ==
    /\ submissions = [k \in 1..n |-> k]
    /\ pc = [k \in 1..n |-> IF mode = "tool" THEN "download"
                            ELSE IF k = 1 THEN "resolve" ELSE "queued"]
    /\ attempt = [k \in 1..n |-> 1]
    /\ studentWorkContent = [k \in 1..n |-> <<>>]
    /\ downloadError = [k \in 1..n |-> <<>>]
    /\ gradingPromises = [k \in 1..n |-> <<>>]
    /\ cursor = IF mode = "service" THEN 1 ELSE 0
    /\ results = <<>>
    /\ report = <<>>
    /\ phase = "running"
    /\ hist = [k \in 1..n |-> NoHistory]

\* the store after ensureInitialized has read st from the file
StoreLoaded(st) ==
    /\ worksheets = st.worksheets
    /\ assignmentMapping = st.assignmentMapping
    /\ isInitialized = TRUE
    /\ storageFile = JSONstringify(st)
    /\ calls = [k \in Slots |-> IdleSlot]
    /\ now = 0
    /\ last = NoLast
    /\ linkedTo = LinksOf(st)

\* nobody calls the storage manager
NoClient == [limit |-> 0, ops |-> {}]

Init ==
    /\ \E st \in StoreStates : StoreLoaded(st)
    /\ client = NoClient
    /\ mode \in {"tool", "service"}
    /\ env = [k \in 1..NumTasks |-> AllAnswers]
    /\ InitBatch(NumTasks)

(***************************************************************************)
(* How a callback settles                                                  *)
(***************************************************************************)
\* the promise of submission i resolves with value (return result / outer catch)
ToolSettle(i, value) ==
    /\ gradingPromises' = [gradingPromises EXCEPT ![i] = <<value>>]
    /\ pc' = [pc EXCEPT ![i] = "done"]
    /\ UNCHANGED <<downloadError, results, cursor, attempt>>

\* catch (downloadError): remember the error and try the alternative download
InnerCatch(i, message) ==
    /\ downloadError' = [downloadError EXCEPT ![i] = message]
    /\ pc' = [pc EXCEPT ![i] = "altdownload"]
    /\ UNCHANGED <<gradingPromises, results, cursor, attempt>>

\* a catch block that logs the failure and pushes nothing
ServicePushSuccessOnly(i, value) ==
    /\ results' = IF value.overallScore = 0 /\ value.totalPossiblePoints = 0
                  THEN results ELSE Append(results, value)
    /\ cursor' = cursor + 1
    /\ pc' = [k \in Tasks |-> IF k = i THEN "done"
                              ELSE IF k = i + 1 THEN "resolve" ELSE pc[k]]
    /\ UNCHANGED <<downloadError, gradingPromises, attempt>>

\* a catch block that leaves the loop after the first failure
ServicePushBreak(i, value) ==
    /\ results' = Append(results, value)
    /\ cursor' = IF value.overallScore = 0 /\ value.totalPossiblePoints = 0
                 THEN Len(submissions) + 1 ELSE cursor + 1
    /\ pc' = [k \in Tasks |-> IF k = i THEN "done"
                              ELSE IF k = i + 1 /\ cursor' = i + 1 THEN "resolve" ELSE pc[k]]
    /\ UNCHANGED <<downloadError, gradingPromises, attempt>>

\* results.push(value) and the next iteration of the for-loop
ServicePush(i, value) ==
    /\ results' = Append(results, value)
    /\ cursor' = cursor + 1
    /\ pc' = [k \in Tasks |-> IF k = i THEN "done"
                              ELSE IF k = i + 1 THEN "resolve" ELSE pc[k]]
    /\ UNCHANGED <<downloadError, gradingPromises, attempt>>

\* gradeStudentSubmission of submission i throws Error(message)
Thrown(i, message) ==
    IF mode = "service" THEN ServicePush(i, TechnicalErrorResult(submissions[i]))
    ELSE IF attempt[i] = 1 THEN InnerCatch(i, message)
    ELSE ToolSettle(i, FailedGrading(submissions[i], CouldNotDownload(downloadError[i])))

\* gradeStudentSubmission of submission i returns value
Returned(i, value) ==
    IF mode = "service" THEN ServicePush(i, value) ELSE ToolSettle(i, value)

(***************************************************************************)
(* Actions                                                                 *)
(***************************************************************************)
\* the tool's callback up to the end of the Drive try block's download part;
\* a failed S3 upload is caught there and only changes the pdfUrl handed on
Download(i) ==
    /\ mode = "tool" /\ phase = "running" /\ pc[i] = "download"
    /\ \E d \in env[i].drive :
          IF d.ok THEN /\ pc' = [pc EXCEPT ![i] = "resolve"]
                       /\ UNCHANGED <<downloadError, gradingPromises, results, cursor, attempt>>
          ELSE IF d.at = "mkdir" THEN ToolSettle(i, FailedGrading(submissions[i], d.message))
          ELSE InnerCatch(i, d.message)
    /\ UNCHANGED <<storeVars, mode, submissions, env, studentWorkContent, report, phase, hist>>

\* the fallback: classroomService.client.downloadFile
AltDownload(i) ==
    /\ mode = "tool" /\ phase = "running" /\ pc[i] = "altdownload"
    /\ \E a \in env[i].alt :
          IF a.ok THEN /\ attempt' = [attempt EXCEPT ![i] = 2]
                       /\ pc' = [pc EXCEPT ![i] = "resolve"]
                       /\ UNCHANGED <<downloadError, gradingPromises, results, cursor>>
          ELSE ToolSettle(i, FailedGrading(submissions[i], CouldNotDownload(downloadError[i])))
    /\ UNCHANGED <<storeVars, mode, submissions, env, studentWorkContent, report, phase, hist>>

\* lines 65-66: what the two lookups of a submission find in the store
Looked(aid) ==
    [answerKeyHtml |-> getAnswerKeyHtml(aid), gradingInfo |-> getGradingInfo(aid)]

\* the grading prompt built and sent without the text of the submission
AfterResolveSkipOcr == "score"

\* lines 76-80: past the two checks the callback goes on to the OCR call
AfterResolve == "ocr"

\* gradeStudentSubmission, step 1: answer key and grading information
Resolve(i) ==
    /\ phase = "running" /\ pc[i] = "resolve"
    /\ hist' = [hist EXCEPT ![i].lookups = Append(@, Looked(AssignmentId))]
    /\ IF RubricError(AssignmentId) # <<>>
       THEN Thrown(i, RubricError(AssignmentId))
       ELSE /\ pc' = [pc EXCEPT ![i] = AfterResolve]
            /\ UNCHANGED <<downloadError, gradingPromises, results, cursor, attempt>>
    /\ UNCHANGED <<storeVars, mode, submissions, env, studentWorkContent, report, phase>>

\* gradeStudentSubmission, step 2: OCR of the submitted PDF
Ocr(i) ==
    /\ phase = "running" /\ pc[i] = "ocr"
    /\ \E o \in env[i].ocr :
          /\ hist' = [hist EXCEPT ![i].ocr = o.kind, ![i].ocrCalls = @ + 1]
          /\ IF AfterOcr(o) = "score"
             THEN /\ studentWorkContent' = [studentWorkContent EXCEPT ![i] = ExtractedContent(o)]
                  /\ pc' = [pc EXCEPT ![i] = "score"]
                  /\ UNCHANGED <<downloadError, gradingPromises, results, cursor, attempt>>
             ELSE /\ Thrown(i, o.message)
                  /\ UNCHANGED studentWorkContent
    /\ UNCHANGED <<storeVars, mode, submissions, env, report, phase>>

\* gradeStudentSubmission, steps 3 and 4: structured scoring and the result
Score(i) ==
    /\ phase = "running" /\ pc[i] = "score"
    /\ \E s \in env[i].scorer :
          /\ hist' = [hist EXCEPT ![i].scorer = IF s.ok THEN "ok" ELSE "error",
                                  ![i].scoreCalls = @ + 1,
                                  ![i].scoreErrors = IF s.ok THEN @ ELSE Append(@, s.message)]
          /\ IF s.ok THEN Returned(i, CompiledResult(submissions[i], s.value))
             ELSE Thrown(i, GradingError(s.message))
    /\ UNCHANGED <<storeVars, mode, submissions, env, studentWorkContent, report, phase>>

\* await Promise.all(gradingPromises) and the statistics after it
PromiseAll ==
    /\ mode = "tool" /\ phase = "running"
    /\ \A i \in Tasks : gradingPromises[i] # <<>>
    /\ results' = [k \in Tasks |-> gradingPromises[k][1]]
    /\ report' = <<Statistics(results')>>
    /\ phase' = "done"
    /\ UNCHANGED <<storeVars, mode, submissions, env, pc, attempt, studentWorkContent,
                   downloadError, gradingPromises, cursor, hist>>

\* gradeMultipleSubmissions: the loop is over, return results
ReturnResults ==
    /\ mode = "service" /\ phase = "running"
    /\ cursor > Len(submissions)
    /\ phase' = "done"
    /\ UNCHANGED <<storeVars, mode, submissions, env, pc, attempt, studentWorkContent,
                   downloadError, gradingPromises, cursor, results, report, hist>>

Step(i) == Download(i) \/ AltDownload(i) \/ Resolve(i) \/ Ocr(i) \/ Score(i)

Next ==
    \/ \E i \in Tasks : Download(i)
    \/ \E i \in Tasks : AltDownload(i)
    \/ \E i \in Tasks : Resolve(i)
    \/ \E i \in Tasks : Ocr(i)
    \/ \E i \in Tasks : Score(i)
    \/ PromiseAll
    \/ ReturnResults

Spec == Init /\ [][Next]_vars

(***************************************************************************)
(* The scenario of five submissions: one whose OCR fails, another whose    *)
(* scoring fails, three that grade cleanly                                 *)
(***************************************************************************)
Scored(gs) == {[ok |-> TRUE, value |-> g] : g \in gs}

ScoringFailures == {s \in generateWithStructuredOutput : ~s.ok}

CleanAnswers ==
    [drive |-> {Ok}, alt |-> AltAnswers, ocr |-> {OcrText},
     scorer |-> Scored({PerfectResult, HalfResult})]

ExtractionFailsAnswers ==
    [drive |-> {Ok}, alt |-> AltAnswers, ocr |-> {OcrError},
     scorer |-> Scored({HalfResult, NegativeResult})]

ScoringFailsAnswers ==
    [drive |-> {Ok}, alt |-> AltAnswers, ocr |-> {OcrText}, scorer |-> ScoringFailures]

ScoreableStore ==
    [worksheets |-> (WorksheetUrl :> WorksheetRecord(<<"answer key">>, RubricTotal, <<AssignmentId>>)),
     assignmentMapping |-> (AssignmentId :> WorksheetUrl)]

InitScenario ==
    /\ StoreLoaded(ScoreableStore)
    /\ client = NoClient
    /\ mode = "tool"
    /\ \E e \in 1..ScenarioTasks : \E s \in (1..ScenarioTasks) \ {e} :
          env = [k \in 1..ScenarioTasks |->
                    IF k = e THEN ExtractionFailsAnswers
                    ELSE IF k = s THEN ScoringFailsAnswers ELSE CleanAnswers]
    /\ InitBatch(ScenarioTasks)

NextTool ==
    \/ \E i \in Tasks : Download(i)
    \/ \E i \in Tasks : AltDownload(i)
    \/ \E i \in Tasks : Resolve(i)
    \/ \E i \in Tasks : Ocr(i)
    \/ \E i \in Tasks : Score(i)
    \/ PromiseAll

SpecScenario == InitScenario /\ [][NextTool]_vars

(***************************************************************************)
(* A batch of the tool in which the OCR and the scoring calls of the first *)
(* submission are not known to complete.  The event loop runs every        *)
(* callback whose promise has settled, so every other step is taken once   *)
(* it can be; nothing in the callbacks, in gradeStudentSubmission or in    *)
(* the two clients sets a timer that would settle a pending call.          *)
(***************************************************************************)
HangAnswers ==
    [drive |-> {Ok}, alt |-> AltAnswers, ocr |-> OcrAnswers,
     scorer |-> Scored({PerfectResult}) \cup ScoringFailures]

InitOneCallHangs ==
    /\ StoreLoaded(ScoreableStore)
    /\ client = NoClient
    /\ mode = "tool"
    /\ env = [k \in 1..NumTasks |-> HangAnswers]
    /\ InitBatch(NumTasks)

FairOneCallHangs ==
    /\ \A i \in 1..NumTasks :
          WF_vars(Download(i)) /\ WF_vars(AltDownload(i)) /\ WF_vars(Resolve(i))
    /\ \A i \in 2..NumTasks : WF_vars(Ocr(i)) /\ WF_vars(Score(i))
    /\ WF_vars(PromiseAll)

SpecOneCallHangs == InitOneCallHangs /\ [][NextTool]_vars /\ FairOneCallHangs

(***************************************************************************)
(* The storage manager under its callers.  A call runs in up to three      *)
(* pieces: until the readFile of ensureInitialized (only while the store   *)
(* is not initialized), the body up to save(), and the return after the    *)
(* writeFile.  Nothing in the class orders the calls or their writes.      *)
(* Errors of the file system other than a file that is missing or cannot   *)
(* be parsed are left out.                                                 *)
(***************************************************************************)
\* save(): fs.writeFile(storageFile, JSON.stringify(this.data)) is called by
\* slot c; the text is the data of this moment
StartWrite(c, pcName, o, d) ==
    [calls EXCEPT ![c] = [pc |-> pcName, call |-> o, text |-> JSONstringify(d)]]

\* the body of call o on this.data = d
Body(d, o, t) ==
    CASE o.op = "addWorksheet" -> addWorksheet(d, o.w, o.total, t)
      [] o.op = "linkWorksheetToAssignment" -> linkWorksheetToAssignment(d, o.w, o.a)
      [] o.op = "deleteWorksheet" -> deleteWorksheet(d, o.w)
      [] OTHER -> Left(d, <<>>, FALSE)

\* slot c runs the body of its call o with this.data = d, up to the await of
\* save() or, without one, to the return
RunBody(c, o, d) ==
    LET left == Body(d, o, now) IN
    /\ worksheets' = left.data.worksheets
    /\ assignmentMapping' = left.data.assignmentMapping
    /\ last' = [call |-> o, before |-> d,
                result |-> IF o.op = "getGradingInfo" THEN getGradingInfo(o.a)'
                           ELSE IF o.op = "getWorksheetByAssignment"
                           THEN getWorksheetByAssignment(o.a)'
                           ELSE left.result]
    /\ linkedTo' =
          IF o.op = "linkWorksheetToAssignment" /\ left.result = <<TRUE>>
          THEN [linkedTo EXCEPT ![o.a] = <<o.w>>]
          ELSE IF o.op = "deleteWorksheet" /\ left.result = <<TRUE>>
          THEN [a \in Assignments |-> IF linkedTo[a] = <<o.w>> THEN <<>> ELSE linkedTo[a]]
          ELSE linkedTo
    /\ calls' = IF left.save THEN StartWrite(c, "save", o, left.data)
                ELSE [calls EXCEPT ![c] = IdleSlot]

\* a caller invokes o; ensureInitialized returns at once when the store is
\* initialized, and awaits fs.readFile when it is not
Invoke(c, o) ==
    /\ o \in client.ops
    /\ calls[c].pc = "idle"
    /\ \A k \in Slots : k < c => calls[k].pc # "idle"
    /\ Cardinality({k \in Slots : calls[k].pc # "idle"}) < client.limit
    /\ IF isInitialized
       THEN /\ RunBody(c, o, Data)
            /\ UNCHANGED <<isInitialized, storageFile>>
       ELSE /\ calls' = [calls EXCEPT ![c] = [IdleSlot EXCEPT !.pc = "readFile", !.call = o]]
            /\ UNCHANGED <<worksheets, assignmentMapping, isInitialized, storageFile,
                           last, linkedTo>>
    /\ UNCHANGED <<client, now, batchVars>>

\* ensureInitialized, lines 46-58, after fs.readFile: the parsed file becomes
\* this.data; when it cannot be read or parsed, the empty data does and is saved
ReadFile(c) ==
    /\ calls[c].pc = "readFile"
    /\ IF storageFile.kind = "json"
       THEN /\ isInitialized' = TRUE
            /\ \E o \in {calls[c].call} : RunBody(c, o, JSONparse(storageFile))
            /\ UNCHANGED storageFile
       ELSE /\ worksheets' = EmptyData.worksheets
            /\ assignmentMapping' = EmptyData.assignmentMapping
            /\ calls' = StartWrite(c, "initSave", calls[c].call, EmptyData)
            /\ UNCHANGED <<isInitialized, storageFile, last, linkedTo>>
    /\ UNCHANGED <<client, now, batchVars>>

\* fs.writeFile, first half: the file is opened with flag 'w', which creates
\* or truncates it
OpenFile(c) ==
    /\ calls[c].pc \in {"initSave", "save"}
    /\ storageFile' = FileTorn(0)
    /\ calls' = [calls EXCEPT ![c].pc = IF @ = "initSave" THEN "initWrite" ELSE "write"]
    /\ UNCHANGED <<worksheets, assignmentMapping, isInitialized, client, now, last,
                   linkedTo, batchVars>>

\* fs.writeFile, second half: the text is written from the start of the file
\* and the promise resolves; ensureInitialized goes on to the body of the call,
\* any other save() returns to the caller
WriteFile(c) ==
    /\ calls[c].pc \in {"initWrite", "write"}
    /\ storageFile' = Overwritten(storageFile, calls[c].text)
    /\ IF calls[c].pc = "initWrite"
       THEN /\ isInitialized' = TRUE
            /\ \E o \in {calls[c].call} : RunBody(c, o, Data)
       ELSE /\ calls' = [calls EXCEPT ![c] = IdleSlot]
            /\ UNCHANGED <<worksheets, assignmentMapping, isInitialized, last, linkedTo>>
    /\ UNCHANGED <<client, now, batchVars>>

\* time passes
Tick ==
    /\ now < MaxClock
    /\ now' = now + 1
    /\ UNCHANGED <<worksheets, assignmentMapping, isInitialized, storageFile, calls,
                   client, last, linkedTo, batchVars>>

\* no batch runs
NoBatch ==
    /\ mode = "tool"
    /\ env = <<>>
    /\ InitBatch(0)

\* a process start: the file of an earlier run is there, or none is
InitStoreAt(files) ==
    /\ worksheets = EmptyData.worksheets
    /\ assignmentMapping = EmptyData.assignmentMapping
    /\ isInitialized = FALSE
    /\ storageFile \in files
    /\ calls = [k \in Slots |-> IdleSlot]
    /\ now = 0
    /\ last = NoLast
    /\ linkedTo = LinksOf(JSONparse(storageFile))
    /\ NoBatch

\* one call at a time, each awaited before the next is made
InitStore ==
    /\ InitStoreAt({FileAbsent, JSONstringify(ScoreableStore)})
    /\ client = [limit |-> 1, ops |-> StoreCalls]

NextStore ==
    \/ \E c \in Slots : \E o \in StoreCalls : Invoke(c, o)
    \/ \E c \in Slots : ReadFile(c)
    \/ \E c \in Slots : OpenFile(c)
    \/ \E c \in Slots : WriteFile(c)
    \/ Tick

SpecStore == InitStore /\ [][NextStore]_vars

\* callers that do not await one call before making the next
RaceCalls ==
    {Call("addWorksheet", "W1", "", RubricTotal),
     Call("linkWorksheetToAssignment", "W1", "A1", Undefined),
     Call("deleteWorksheet", "W1", "", Undefined)}

InitStoreRace ==
    /\ InitStoreAt({FileAbsent, JSONstringify(ScoreableStore)})
    /\ client = [limit |-> MaxInFlight, ops |-> RaceCalls]

NextStoreRace ==
    \/ \E c \in Slots : \E o \in RaceCalls : Invoke(c, o)
    \/ \E c \in Slots : ReadFile(c)
    \/ \E c \in Slots : OpenFile(c)
    \/ \E c \in Slots : WriteFile(c)

SpecStoreRace == InitStoreRace /\ [][NextStoreRace]_vars

\* two worksheets stored at about the same time in a process that has not
\* used the store before
AddCalls ==
    {Call("addWorksheet", w, "", RubricTotal) : w \in Worksheets}

InitStoreAddRace ==
    /\ InitStoreAt({FileAbsent, JSONstringify(ScoreableStore)})
    /\ client = [limit |-> MaxInFlight, ops |-> AddCalls]

NextStoreAddRace ==
    \/ \E c \in Slots : \E o \in AddCalls : Invoke(c, o)
    \/ \E c \in Slots : ReadFile(c)
    \/ \E c \in Slots : OpenFile(c)
    \/ \E c \in Slots : WriteFile(c)

SpecStoreAddRace == InitStoreAddRace /\ [][NextStoreAddRace]_vars

\* a process start on a file that an earlier run left torn, or left whole
FirstCalls ==
    {Call("addWorksheet", "W2", "", RubricTotal),
     Call("linkWorksheetToAssignment", "W2", "A2", Undefined),
     Call("linkWorksheetToAssignment", "W2", AssignmentId, Undefined),
     Call("deleteWorksheet", "W2", "", Undefined),
     Call("getGradingInfo", "", AssignmentId, Undefined)}

InitStoreTorn ==
    /\ InitStoreAt({FileTorn(Length(ScoreableStore)), JSONstringify(ScoreableStore)})
    /\ client = [limit |-> 1, ops |-> FirstCalls]

NextStoreTorn ==
    \/ \E c \in Slots : \E o \in FirstCalls : Invoke(c, o)
    \/ \E c \in Slots : ReadFile(c)
    \/ \E c \in Slots : OpenFile(c)
    \/ \E c \in Slots : WriteFile(c)

SpecStoreTorn == InitStoreTorn /\ [][NextStoreTorn]_vars

\* the calls gradeStudentSubmission makes on the storage manager, by the
\* submissions the tool dispatches at once, in a process that has not used the
\* store before
GradingCalls ==
    {Call("getWorksheetByAssignment", "", a, Undefined) : a \in Assignments}
    \cup {Call("getGradingInfo", "", a, Undefined) : a \in Assignments}

StartFiles ==
    {FileAbsent, FileTorn(Length(ScoreableStore)), JSONstringify(ScoreableStore)}

InitGradingOnStart ==
    /\ InitStoreAt(StartFiles)
    /\ client = [limit |-> MaxInFlight, ops |-> GradingCalls]

NextGradingOnStart ==
    \/ \E c \in Slots : \E o \in GradingCalls : Invoke(c, o)
    \/ \E c \in Slots : ReadFile(c)
    \/ \E c \in Slots : OpenFile(c)
    \/ \E c \in Slots : WriteFile(c)

SpecGradingOnStart == InitGradingOnStart /\ [][NextGradingOnStart]_vars

(***************************************************************************)
(* A batch that runs while the teacher publishes another worksheet for the *)
(* same assignment: the store holds the linked worksheet and a second one, *)
(* and linkWorksheetToAssignment of the second one can run at any time.    *)
(***************************************************************************)
TwoWorksheetStore ==
    [worksheets |->
        Assign(ScoreableStore.worksheets, "W2",
               WorksheetRecord(<<"answer key of the other worksheet">>, RubricTotal, <<>>)),
     assignmentMapping |-> ScoreableStore.assignmentMapping]

Relink == Call("linkWorksheetToAssignment", "W2", AssignmentId, Undefined)

\* submissions that download and extract, and whose scoring succeeds or fails
RelinkAnswers ==
    [drive |-> {Ok}, alt |-> {Ok}, ocr |-> {OcrText},
     scorer |-> Scored({PerfectResult}) \cup ScoringFailures]

InitRelinkDuringBatch ==
    /\ StoreLoaded(TwoWorksheetStore)
    /\ client = [limit |-> 1, ops |-> {Relink}]
    /\ mode \in {"tool", "service"}
    /\ env = [k \in 1..NumTasks |-> RelinkAnswers]
    /\ InitBatch(NumTasks)

NextRelinkDuringBatch ==
    \/ \E i \in Tasks : Download(i)
    \/ \E i \in Tasks : AltDownload(i)
    \/ \E i \in Tasks : Resolve(i)
    \/ \E i \in Tasks : Ocr(i)
    \/ \E i \in Tasks : Score(i)
    \/ PromiseAll
    \/ ReturnResults
    \/ \E c \in Slots : Invoke(c, Relink)
    \/ \E c \in Slots : OpenFile(c)
    \/ \E c \in Slots : WriteFile(c)

SpecRelinkDuringBatch == InitRelinkDuringBatch /\ [][NextRelinkDuringBatch]_vars

(***************************************************************************)
(* A batch for a worksheet that generateWorksheetWithPDF stored and         *)
(* createAssignmentWithWorksheet linked.  The answer key is the text the   *)
(* language model returned for it, with the points every question awards   *)
(* written after the question numbers.                                     *)
(***************************************************************************)
\* generateText for the answer key: the sections with "[n pts]" marks, and
\* the points the marks add up to; or a thrown error
KeyOutOfTen ==
    [ok |-> TRUE, text |-> <<"1. [5 pts] Answer: 42", "2. [5 pts] Answer: 7">>, points |-> 10]
KeyOutOfHundred ==
    [ok |-> TRUE, text |-> <<"1. [50 pts] Answer: 42", "2. [50 pts] Answer: 7">>, points |-> 100]
KeyFails == [ok |-> FALSE, text |-> <<>>, points |-> 0]

AnswerKeyResponses == {KeyOutOfTen, KeyOutOfHundred, KeyFails}

\* WORKSHEET_TEMPLATE with title, subtitle and content filled in
WORKSHEET_TEMPLATE(title, subtitle, content) == <<title, subtitle>> \o content

\* generateAnswerKey, lines 784-852
generateAnswerKey(response) ==
    IF response.ok
    THEN [html |-> WORKSHEET_TEMPLATE("ANSWER KEY", "Complete Answer Guide", response.text),
          totalPoints |-> 100, gradingBreakdown |-> <<>>]
    ELSE [html |-> WORKSHEET_TEMPLATE("ANSWER KEY", "Generation Failed",
                       <<"Unable to generate answer key. Please create manually.">>),
          totalPoints |-> 0, gradingBreakdown |-> <<>>]

\* the store after generateWorksheetWithPDF stored the worksheet with the
\* answer key made from response, and the assignment was linked to it
GeneratedStore(response) ==
    [worksheets |->
        (WorksheetUrl :>
            [WorksheetRecord(generateAnswerKey(response).html,
                             generateAnswerKey(response).totalPoints, <<AssignmentId>>)
                EXCEPT !.gradingBreakdown = generateAnswerKey(response).gradingBreakdown]),
     assignmentMapping |-> (AssignmentId :> WorksheetUrl)]

InitGenerated ==
    /\ \E response \in AnswerKeyResponses : StoreLoaded(GeneratedStore(response))
    /\ client = NoClient
    /\ mode \in {"tool", "service"}
    /\ env = [k \in 1..NumTasks |-> RelinkAnswers]
    /\ InitBatch(NumTasks)

SpecGenerated == InitGenerated /\ [][Next]_vars

(***************************************************************************)
(* Vocabulary of the properties                                            *)
(***************************************************************************)
\* the outcome submission i ended with (defined once pc[i] = "done")
Outcome(i) == IF mode = "tool" THEN gradingPromises[i][1] ELSE results[i]

\* a FAILURE outcome: flagged by the tool, or the loop's technical-error record
IsFailure(r) ==
    r.error \/ r.overallFeedback = TechnicalErrorResult(r.userId).overallFeedback

IsSuccess(r) == ~IsFailure(r)

Degraded(i) == hist[i].ocr \in {"error", "empty"}

\* text contains the fragments of message, in a row
Contains(text, message) ==
    \E k \in 1..(Len(text) - Len(message) + 1) :
        SubSeq(text, k, k + Len(message) - 1) = message

Range(f) == {f[k] : k \in DOMAIN f}

RECURSIVE SumOver(_, _)
SumOver(S, f) ==
    IF S = {} THEN 0
    ELSE LET x == CHOOSE y \in S : TRUE IN f[x] + SumOver(S \ {x}, f)

RECURSIVE SumEarned(_)
SumEarned(sections) ==
    IF sections = <<>> THEN 0
    ELSE sections[1].pointsEarned + SumEarned(Tail(sections))

\* the submissions whose callback returned a compiled result
Succeeded == {i \in Tasks : pc[i] = "done" /\ hist[i].scorer = "ok"}

PercentageOf == [i \in Tasks |-> IF gradingPromises[i] = <<>> THEN 0
                                 ELSE gradingPromises[i][1].percentageScore]

MeanOver(S) == IF S = {} THEN <<0, 1>> ELSE Quotient(SumOver(S, PercentageOf), Cardinality(S))

\* the rubric a worksheet record holds
RubricOf(record) ==
    [totalPoints |-> record.totalPoints, gradingBreakdown |-> record.gradingBreakdown]

\* the storage manager has no call in flight
Quiescent == \A k \in Slots : calls[k].pc = "idle"

(***************************************************************************)
(* C1  Total containment.  Whatever fails inside the submissions, the      *)
(* batch never gets stuck before it returns, and what it returns holds     *)
(* exactly one outcome per submission, at the submission's own position.   *)
(***************************************************************************)
TotalContainment ==
    /\ phase # "done" => ENABLED Next
    /\ phase = "done" =>
          /\ Len(results) = Len(submissions)
          /\ \A k \in Tasks : results[k].userId = submissions[k]

TotalContainmentWitness ==
    /\ phase = "done"
    /\ \E i, j \in Tasks :
          /\ hist[i].scorer = "error" /\ IsFailure(results[i])
          /\ hist[j].ocr = "error" /\ IsSuccess(results[j])

(***************************************************************************)
(* C2  No rubric implies uniform failure.  With no usable rubric for the   *)
(* assignment every outcome of the batch is a FAILURE and all outcomes     *)
(* carry the same feedback text.                                           *)
(***************************************************************************)
NoRubricUniformFailure ==
    (phase = "done" /\ RubricError(AssignmentId) # <<>>) =>
        /\ \A k \in Tasks : IsFailure(results[k])
        /\ \A k, l \in Tasks : results[k].overallFeedback = results[l].overallFeedback

(***************************************************************************)
(* C3  Degraded extraction still scores.  After an OCR error or an empty   *)
(* OCR text the prompt receives the placeholder text, the scoring call is  *)
(* made, and when it answers the outcome is the compiled success.          *)
(***************************************************************************)
DegradedExtractionStillScores ==
    \A i \in Tasks :
        /\ (pc[i] = "score" /\ hist[i].ocr = "error") =>
              Contains(studentWorkContent[i], OcrError.message)
        /\ (pc[i] = "score" /\ hist[i].ocr = "empty") =>
              studentWorkContent[i] = EmptyFallback
        /\ (pc[i] = "done" /\ Degraded(i)) => hist[i].scorer # "none"
        /\ (pc[i] = "done" /\ Degraded(i) /\ hist[i].scorer = "ok") =>
              IsSuccess(Outcome(i))

DegradedExtractionWitness ==
    \E i \in Tasks :
        /\ pc[i] = "done" /\ hist[i].ocr = "error" /\ hist[i].scorer = "ok"
        /\ IsSuccess(Outcome(i))
        /\ hist[i].scoreCalls = 1

(***************************************************************************)
(* C4  A scoring failure is terminal.  In the tool, once a scoring call of *)
(* a submission has failed, no further step of gradeStudentSubmission runs *)
(* for it, it ends as a FAILURE, and the feedback holds the provider's     *)
(* message.                                                                *)
(***************************************************************************)
ScoringFailureTerminal ==
    \A i \in Tasks :
        (mode = "tool" /\ hist[i].scoreErrors # <<>>) =>
            /\ pc[i] \notin {"resolve", "ocr", "score"}
            /\ hist[i].scoreCalls = 1
            /\ pc[i] = "done" =>
                  /\ IsFailure(Outcome(i))
                  /\ Contains(Outcome(i).overallFeedback, hist[i].scoreErrors[1])

(***************************************************************************)
(* C5  Score clamping.  Every successful outcome has a score between 0     *)
(* and its total of possible points.                                       *)
(***************************************************************************)
ScoreClamped ==
    \A i \in Tasks :
        (pc[i] = "done" /\ IsSuccess(Outcome(i))) =>
            /\ 0 <= Outcome(i).overallScore
            /\ Outcome(i).overallScore <= Outcome(i).totalPossiblePoints

(***************************************************************************)
(* C6  Section-sum consistency.  In every successful outcome the points    *)
(* earned in the sections add up to the overall score.                     *)
(***************************************************************************)
SectionSumConsistent ==
    \A i \in Tasks :
        (pc[i] = "done" /\ IsSuccess(Outcome(i))) =>
            SumEarned(Outcome(i).sectionScores) = Outcome(i).overallScore

(***************************************************************************)
(* C7  The five-submission scenario.  As claimed: 3 successes, 2 failures  *)
(* and the mean over the three clean submissions.  As the code has it: the *)
(* submission whose OCR failed is scored on the placeholder text, so there *)
(* are 4 successes, 1 failure and the mean runs over those four.           *)
(***************************************************************************)
CleanTasks == {i \in Tasks : hist[i].ocr = "text" /\ hist[i].scorer = "ok"}

ScenarioReportClaimed ==
    phase = "done" =>
        /\ report[1].successCount = 3
        /\ report[1].failureCount = 2
        /\ report[1].averagePercentage = MeanOver(CleanTasks)

ScenarioReportAmended ==
    phase = "done" =>
        /\ report[1].successCount = 4
        /\ report[1].failureCount = 1
        /\ Succeeded = CleanTasks \cup {i \in Tasks : hist[i].ocr = "error"}
        /\ report[1].averagePercentage = MeanOver(Succeeded)

ScenarioWitness ==
    /\ phase = "done"
    /\ Cardinality(CleanTasks) = 3
    /\ \E i, j \in Tasks :
          /\ hist[i].ocr = "error" /\ hist[i].scorer = "ok" /\ hist[i].scoreErrors = <<>>
          /\ hist[j].ocr = "text" /\ hist[j].scoreErrors # <<>> /\ hist[j].scorer = "error"
    /\ report[1].averagePercentage # MeanOver(CleanTasks)

(***************************************************************************)
(* C8  The report's mean is the mean of the percentages of the successful  *)
(* outcomes alone, 0 when there is none, and the two counts add up to the  *)
(* number of submissions.                                                  *)
(***************************************************************************)
MeanOverSuccesses ==
    (mode = "tool" /\ phase = "done") =>
        /\ report[1].successCount = Cardinality(Succeeded)
        /\ report[1].failureCount = Cardinality(Tasks \ Succeeded)
        /\ report[1].successCount + report[1].failureCount = Len(submissions)
        /\ report[1].averagePercentage = MeanOver(Succeeded)
        /\ Succeeded = {} => report[1].averagePercentage = <<0, 1>>

MeanOverSuccessesWitness ==
    /\ mode = "tool" /\ phase = "done"
    /\ Succeeded # {} /\ Succeeded # Tasks
    /\ report[1].averagePercentage = <<50, 1>>

(***************************************************************************)
(* C9  Order independence.  The statistics of the outcomes taken in any    *)
(* other order are the statistics of the report: same counts, same mean,   *)
(* same students on the scaffolding and on the acceleration list.          *)
(***************************************************************************)
Reordered(p) == [k \in Tasks |-> results[p[k]]]

Unfinished == {i \in Tasks : pc[i] # "done"}

BatchReturnsDespiteHang == <>(phase = "done")

(***************************************************************************)
(* C12  linkWorksheetToAssignment.  For a worksheet the store does not     *)
(* hold it returns false and leaves records and index as they were; for    *)
(* one it holds it returns true, the record names the assignment and the   *)
(* index maps the assignment to the worksheet.                             *)
(***************************************************************************)
LinkContract ==
    last.call.op = "linkWorksheetToAssignment" =>
        IF last.call.w \notin DOMAIN last.before.worksheets
        THEN /\ last.result = <<FALSE>>
             /\ Data = last.before
        ELSE /\ last.result = <<TRUE>>
             /\ worksheets[last.call.w].assignmentId = <<last.call.a>>
             /\ assignmentMapping[last.call.a] = last.call.w
             /\ \A w \in DOMAIN worksheets \ {last.call.w} :
                   worksheets[w] = last.before.worksheets[w]

LinkContractWitness ==
    /\ last.call.op = "linkWorksheetToAssignment"
    /\ last.result = <<FALSE>>
    /\ last.before.worksheets # <<>>
    /\ \E a \in Assignments : linkedTo[a] # <<>>

(***************************************************************************)
(* C13  Lookup of an assignment that was never linked.  Only a link adds   *)
(* an index entry, so such an assignment has none: getGradingInfo and      *)
(* getWorksheetByAssignment return null for it and change no record and    *)
(* no index entry.                                                         *)
(***************************************************************************)
LookupNotFound ==
    /\ \A a \in Assignments \ DOMAIN assignmentMapping :
          getGradingInfo(a) = <<>> /\ getWorksheetByAssignment(a) = <<>>
    /\ (/\ last.call.op \in {"getGradingInfo", "getWorksheetByAssignment"}
        /\ last.call.a \notin DOMAIN last.before.assignmentMapping) =>
          /\ last.result = <<>>
          /\ Data = last.before

LookupNotFoundWitness ==
    /\ last.call.op = "getGradingInfo"
    /\ last.call.a \notin DOMAIN last.before.assignmentMapping
    /\ last.result = <<>>
    /\ last.before.worksheets # <<>>
    /\ last.before.assignmentMapping # <<>>

(***************************************************************************)
(* C14  Round trip through the index.  While the worksheet an assignment   *)
(* was last linked to is not deleted and the assignment is not linked      *)
(* again, getGradingInfo of the assignment returns the total points and    *)
(* the breakdown of that worksheet.                                        *)
(***************************************************************************)
RoundTripThroughIndex ==
    isInitialized =>
        \A a \in Assignments :
            linkedTo[a] # <<>> =>
                /\ linkedTo[a][1] \in DOMAIN worksheets
                /\ getGradingInfo(a) = <<RubricOf(worksheets[linkedTo[a][1]])>>

(***************************************************************************)
(* C15  Delete cascades to the index.  After deleteWorksheet of a          *)
(* worksheet the store holds, it returned true, no index entry maps to the *)
(* worksheet and getGradingInfo returns null for every assignment that had *)
(* been mapped to it; for a worksheet the store does not hold it returned  *)
(* false and changed nothing.                                              *)
(***************************************************************************)
DeleteCascades ==
    last.call.op = "deleteWorksheet" =>
        IF last.call.w \in DOMAIN last.before.worksheets
        THEN /\ last.result = <<TRUE>>
             /\ last.call.w \notin DOMAIN worksheets
             /\ \A a \in DOMAIN assignmentMapping : assignmentMapping[a] # last.call.w
             /\ \A a \in DOMAIN last.before.assignmentMapping :
                   last.before.assignmentMapping[a] = last.call.w => getGradingInfo(a) = <<>>
        ELSE /\ last.result = <<FALSE>>
             /\ Data = last.before

(***************************************************************************)
(* C16  addWorksheet is an idempotent upsert.  It leaves one record under  *)
(* the worksheet's key and the index as it was; and on a store that is     *)
(* already as an addWorksheet with the same arguments leaves it, it        *)
(* changes nothing.                                                        *)
(***************************************************************************)
PutIdempotent ==
    last.call.op = "addWorksheet" =>
        /\ DOMAIN worksheets = DOMAIN last.before.worksheets \cup {last.call.w}
        /\ assignmentMapping = last.before.assignmentMapping
        /\ (\E t \in 0..MaxClock :
               last.before = addWorksheet(last.before, last.call.w, last.call.total, t).data)
              => Data = last.before

(***************************************************************************)
(* C17  Link overwrite is last-write-wins.  A link of a worksheet that     *)
(* already named another assignment, or of an assignment the index mapped  *)
(* to another worksheet, leaves the record naming the new assignment and   *)
(* the lookups of the assignment resolving to the new worksheet.           *)
(***************************************************************************)
Overwrites ==
    /\ last.call.op = "linkWorksheetToAssignment"
    /\ last.call.w \in DOMAIN last.before.worksheets
    /\ \/ last.before.worksheets[last.call.w].assignmentId \notin {<<>>, <<last.call.a>>}
       \/ /\ last.call.a \in DOMAIN last.before.assignmentMapping
          /\ last.before.assignmentMapping[last.call.a] # last.call.w

LinkLastWriteWins ==
    Overwrites =>
        /\ worksheets[last.call.w].assignmentId = <<last.call.a>>
        /\ getWorksheetByAssignment(last.call.a) = <<worksheets[last.call.w]>>
        /\ getGradingInfo(last.call.a) = <<RubricOf(worksheets[last.call.w])>>

LinkLastWriteWinsWitness ==
    /\ last.call.op = "linkWorksheetToAssignment"
    /\ last.result = <<TRUE>>
    /\ \E a \in Assignments \ {last.call.a} :
          last.before.worksheets[last.call.w].assignmentId = <<a>>
    /\ last.call.a \in DOMAIN last.before.assignmentMapping
    /\ last.before.assignmentMapping[last.call.a] \in DOMAIN last.before.worksheets \ {last.call.w}
    /\ RubricOf(last.before.worksheets[last.before.assignmentMapping[last.call.a]])
          # RubricOf(worksheets[last.call.w])

(***************************************************************************)
(* C18  Single-writer durability.  Once every call of the storage manager  *)
(* has returned, the file holds the snapshot of this.data.                 *)
(***************************************************************************)
SingleWriterDurability ==
    (isInitialized /\ Quiescent) => storageFile = JSONstringify(Data)

(***************************************************************************)
(* C19  The rubric is resolved once per batch.  All lookups of answer key  *)
(* and grading information that the submissions of one batch are graded    *)
(* with find the same, whatever is written to the store while the batch    *)
(* runs.                                                                   *)
(***************************************************************************)
LookupsOfBatch == UNION {Range(hist[i].lookups) : i \in Tasks}

SameRubricForAllTasks == Cardinality(LookupsOfBatch) <= 1

(***************************************************************************)
(* C20  Failure outcomes have a uniform shape.  Every FAILURE outcome has  *)
(* score, total and percentage 0, no section scores, both recommendation   *)
(* flags false with empty area lists, and the userId, userName and         *)
(* assignmentId of its own submission.                                     *)
(***************************************************************************)
FailureShape ==
    \A i \in Tasks :
        (pc[i] = "done" /\ IsFailure(Outcome(i))) =>
            /\ Outcome(i).overallScore = 0
            /\ Outcome(i).totalPossiblePoints = 0
            /\ Outcome(i).percentageScore = 0
            /\ Outcome(i).sectionScores = <<>>
            /\ ~Outcome(i).needsScaffolding /\ Outcome(i).scaffoldingAreas = <<>>
            /\ ~Outcome(i).readyForAcceleration /\ Outcome(i).accelerationAreas = <<>>
            /\ Outcome(i).userId = submissions[i]
            /\ Outcome(i).userName = UserName(submissions[i])
            /\ Outcome(i).assignmentId = AssignmentId

FailureShapeWitness ==
    /\ phase = "done"
    /\ \E i, j \in Tasks :
          /\ IsFailure(Outcome(i)) /\ Outcome(i).userName = UserName(submissions[i])
          /\ IsSuccess(Outcome(j)) /\ Outcome(j).totalPossiblePoints = RubricTotal
          /\ Outcome(j).scaffoldingAreas # <<>>

(***************************************************************************)
(* C21  An unscoreable record is a hard precondition failure.  When the    *)
(* worksheet linked to the assignment lacks an answer key, or lacks the    *)
(* total of its points (it has none, or one that was filled in without     *)
(* being taken from the worksheet), a submission ends in FAILURE and       *)
(* neither OCR nor scoring is invoked for it.                              *)
(***************************************************************************)
\* the total a record holds is not the total its answer key awards
TotalIsDefault(record) ==
    \E response \in AnswerKeyResponses :
        /\ response.ok
        /\ record.answerKeyHtml = generateAnswerKey(response).html
        /\ record.totalPoints # response.points

Unscoreable(record) ==
    \/ record.answerKeyHtml = <<>>
    \/ Falsy(record.totalPoints)
    \/ TotalIsDefault(record)

ExtractionPrecedesScoring ==
    \A i \in Tasks :
        /\ hist[i].scoreCalls <= hist[i].ocrCalls
        /\ pc[i] = "ocr" => hist[i].ocrCalls = hist[i].scoreCalls
        /\ pc[i] = "score" =>
              /\ hist[i].ocrCalls = hist[i].scoreCalls + 1
              /\ hist[i].ocr \in {"text", "empty", "error"}
              /\ studentWorkContent[i] # <<>>

ExtractionPrecedesScoringWitness ==
    \E i, j \in Tasks :
        /\ pc[i] = "score" /\ hist[i].ocr = "error" /\ hist[i].ocrCalls = 2
        /\ pc[j] = "done" /\ hist[j].ocr = "empty" /\ hist[j].scoreCalls = 1

(***************************************************************************)
(* C23  Storage errors are not swallowed.  A call of the storage manager   *)
(* that finds content in the file which cannot be parsed ends with that    *)
(* error: it does not go on with an empty store, does not overwrite the    *)
(* file and does not return as if it had succeeded.                        *)
(***************************************************************************)
Unparseable == storageFile.kind = "torn" /\ storageFile.length > 0

ParseErrorSurfaces ==
    Unparseable =>
        /\ ~isInitialized
        /\ \A c \in Slots : calls[c].pc \in {"idle", "readFile"}
        /\ last = NoLast

(***************************************************************************)
(* C24  Grading is read-only.  The lookups that grading makes leave the    *)
(* file as the process found it, and the records and the index are those   *)
(* the file holds.                                                         *)
(***************************************************************************)
GradingReadOnly ==
    /\ storageFile \in StartFiles
    /\ isInitialized => Data = JSONparse(storageFile)

(***************************************************************************)
(* C25  The percentage is derived.  In every successful outcome the        *)
(* percentage is 100 * score / total of that outcome, rounded to the       *)
(* nearest integer.                                                        *)
(***************************************************************************)
\* Math.round(n / d) for d > 0: halves go up
Round(n, d) == (2 * n + d) \div (2 * d)

PercentageDerived ==
    \A i \in Tasks :
        (pc[i] = "done" /\ IsSuccess(Outcome(i)) /\ Outcome(i).totalPossiblePoints > 0) =>
            Outcome(i).percentageScore =
                Round(100 * Outcome(i).overallScore, Outcome(i).totalPossiblePoints)

(***************************************************************************)
(* C26  The two lists of the report.  The scaffolding list holds exactly   *)
(* the students whose outcome has needsScaffolding, the acceleration list  *)
(* exactly those whose outcome has readyForAcceleration, each once; a      *)
(* student whose outcome is a FAILURE is on neither.                       *)
(***************************************************************************)
Flagged(flag) == {results[k].userId : k \in {l \in Tasks : results[l][flag]}}

ListsByFlag ==
    (mode = "tool" /\ phase = "done") =>
        /\ Range(report[1].scaffoldingList) = Flagged("needsScaffolding")
        /\ Len(report[1].scaffoldingList) = Cardinality(Flagged("needsScaffolding"))
        /\ Range(report[1].accelerationList) = Flagged("readyForAcceleration")
        /\ Len(report[1].accelerationList) = Cardinality(Flagged("readyForAcceleration"))
        /\ \A k \in Tasks :
              IsFailure(results[k]) =>
                  /\ results[k].userId \notin Range(report[1].scaffoldingList)
                  /\ results[k].userId \notin Range(report[1].accelerationList)

ListsByFlagWitness ==
    /\ mode = "tool" /\ phase = "done"
    /\ \E i, j \in Tasks :
          /\ IsFailure(results[i])
          /\ IsSuccess(results[j]) /\ ~results[j].needsScaffolding
          /\ report[1].accelerationList = <<results[j].userId>>
          /\ report[1].scaffoldingList = <<>>

(***************************************************************************)
(* C27  Referential integrity of the index.  Every index entry maps its    *)
(* assignment to a worksheet the store holds, and the record of that       *)
(* worksheet names the assignment.                                         *)
(***************************************************************************)
IndexIntegrity ==
    \A a \in DOMAIN assignmentMapping :
        /\ assignmentMapping[a] \in DOMAIN worksheets
        /\ worksheets[assignmentMapping[a]].assignmentId = <<a>>

(***************************************************************************)
(* C28  No lost update during lazy initialisation.  With only addWorksheet *)
(* calls made, possibly before the store is initialized: the record of a   *)
(* call that awaits its save is in memory, and once every call has         *)
(* returned the record of the last one is in memory and the file holds     *)
(* what memory holds.                                                      *)
(***************************************************************************)
NoLostUpdate ==
    /\ \A c \in Slots :
          (calls[c].pc \in {"save", "write"} /\ calls[c].call.op = "addWorksheet") =>
              calls[c].call.w \in DOMAIN worksheets
    /\ (isInitialized /\ Quiescent /\ last.call.op = "addWorksheet") =>
          /\ last.call.w \in DOMAIN worksheets
          /\ storageFile = JSONstringify(Data)

(***************************************************************************)
(* C29  deleteWorksheet touches only the index entries of its worksheet.   *)
(* An index entry that maps its assignment to another worksheet is there   *)
(* after the call as before, and getGradingInfo of that assignment         *)
(* returns what it returned before.                                        *)
(***************************************************************************)
DeleteLeavesOtherEntries ==
    last.call.op = "deleteWorksheet" =>
        \A a \in DOMAIN last.before.assignmentMapping :
            last.before.assignmentMapping[a] # last.call.w =>
                /\ a \in DOMAIN assignmentMapping
                /\ assignmentMapping[a] = last.before.assignmentMapping[a]
                /\ assignmentMapping[a] \in DOMAIN last.before.worksheets =>
                      getGradingInfo(a) =
                          <<RubricOf(last.before.worksheets[assignmentMapping[a]])>>

(***************************************************************************)
(* C30  The tool scores a submission at most once.  The alternative        *)
(* download is entered only with an error of the Drive download, and a     *)
(* feedback "Could not download PDF" reports such an error.                *)
(***************************************************************************)
DriveErrors == {d.message : d \in {x \in DriveAnswers : ~x.ok /\ x.at = "drive"}}

ScoredAtMostOnce ==
    \A i \in Tasks :
        mode = "tool" =>
            /\ hist[i].scoreCalls <= 1
            /\ (pc[i] = "altdownload" \/ attempt[i] = 2) => downloadError[i] \in DriveErrors
            /\ (pc[i] = "done" /\ Contains(Outcome(i).overallFeedback, CouldNotDownload(<<>>))) =>
                  downloadError[i] \in DriveErrors

====
